---- MODULE Spec2Model ----
(***************************************************************************)
(* The streaming speech-to-text session of services/stt:                   *)
(*   routers/stream.py      the WebSocket handler `stream` and _get_engine *)
(*   engines/vosk_engine.py the streaming-capable engine                   *)
(*   engines/base.py        the engine interface (batch engines inherit    *)
(*                          its no-op streaming methods)                   *)
(*   vad/webrtc_vad.py      frame_generator and vad_collector              *)
(*                                                                         *)
(* Spec models one handler run.  Every ws.send_text and every engine,       *)
(* slicer and segmenter call the handler makes is appended, in program     *)
(* order, to the history `trace`.  SpecScenario is the same handler on one *)
(* scripted message sequence, SpecLoop runs two handlers on one event      *)
(* loop.  SpecNormalize, SpecFrameBytes, SpecSlice and SpecPadding call    *)
(* _normalize_frame_ms, the frame byte length, frame_generator and the     *)
(* ring-buffer capacity on their own; SpecVad runs vad_collector frame by  *)
(* frame; SpecFlush runs the batch flush of a stop statement by statement. *)
(*                                                                         *)
(* Things outside the repository are nondeterministic choices:             *)
(*   - the file system and the model loaders (record `env` of Accept);     *)
(*   - what the recognizer answers to a chunk (partial / final / raise);   *)
(*   - how the transport reports a client that went away: ws.receive()     *)
(*     either raises WebSocketDisconnect or hands out a message that holds *)
(*     neither "text" nor "bytes" and raises RuntimeError on the next      *)
(*     call.                                                               *)
(* ws.send_text itself never raises in this model; a send made after the   *)
(* client went away is recorded in `trace` like any other send.            *)
(*                                                                         *)
(* Audio is scaled down: the sessions run at 100 Hz, so that a 10 ms frame *)
(* is 2 bytes (the endpoint accepts 8000..48000 Hz, stream.py:56).  A byte *)
(* is 0 (silence) or 1 (speech).                                           *)
(***************************************************************************)
EXTENDS Integers, Sequences, FiniteSets, TLC

\* Messages one session receives at most (the loop of stream.py:96 is unbounded).
MaxMsgs == 4

VARIABLES
    query,          \* the query parameters of the connection (stream.py:54-59)
    pc,             \* "accept" (stream.py:71-93), "receive" (the loop, 96-97), "return"
    exit,           \* how the handler ended, "" while it runs
    streaming_supported,  \* stream.py:82
    recognizer,     \* VoskEngine._recognizer is not None (vosk_engine.py:56, 118)
    MODEL_CACHE,    \* vosk_engine.py:13, the set of model paths loaded
    buffer,         \* stream.py:93
    chunks,         \* history: the binary payloads received, in arrival order
    nRecv,          \* number of messages ws.receive() has returned or raised on
    last,           \* the message of the latest ws.receive()
    disconnected,   \* a disconnect message has been handed to the handler
    closes,         \* number of ws.close() calls
    trace,          \* history: the sends and the engine calls, in program order
    budget,         \* number of messages the client of this session sends at most
    fn_arg,         \* a direct call of one function of the repository: its argument,
    fn_ret,         \*   the value it returned,
    returned,       \*   and whether it has returned
    sess,           \* concurrent sessions on one event loop: each handler's locals
    engines,        \*   the engine instances created, by identity
    model_cache,    \*   _MODEL_CACHE with object identities (vosk_engine.py:13)
    models          \*   the vosk Model objects constructed: the path each was loaded from

\* The variables of one handler run.
handler == <<query, pc, exit, streaming_supported, recognizer, MODEL_CACHE, buffer, chunks, nRecv, last, disconnected, closes, trace, budget>>

\* The variables of a direct function call.
fncall == <<fn_arg, fn_ret, returned>>

\* The variables of the concurrent sessions.
loop == <<sess, engines, model_cache, models>>

\* The variables of the specifications that do not run one handler alone.
others == <<fncall, loop>>

vars == <<query, pc, exit, streaming_supported, recognizer, MODEL_CACHE, buffer, chunks, nRecv, last, disconnected, closes, trace, budget, others>>

----------------------------------------------------------------------------
\* Inputs

\* engine, sample_rate, vad_frame_ms, vad_padding_ms, vad_aggr of stream.py:54-59.
Queries ==
    { [engine |-> "vosk",       sample_rate |-> 100, vad_frame_ms |-> 10, vad_padding_ms |-> 10, vad_aggr |-> 2],
      [engine |-> "WhisperCpp", sample_rate |-> 100, vad_frame_ms |-> 10, vad_padding_ms |-> 10, vad_aggr |-> 2],
      [engine |-> "whispercpp", sample_rate |-> 100, vad_frame_ms |-> 7,  vad_padding_ms |-> 25, vad_aggr |-> 5],
      [engine |-> "sphinx",     sample_rate |-> 100, vad_frame_ms |-> 10, vad_padding_ms |-> 10, vad_aggr |-> 2] }

\* The file system and the model loaders, as the setup code sees them.
Envs == [vosk_isdir : BOOLEAN, vosk_loads : BOOLEAN, kaldi_ok : BOOLEAN, cli_isfile : BOOLEAN, model_isfile : BOOLEAN]

VOSK_MODEL_PATH == "models/vosk-model-small-tr-0.3"

\* Text frames a client may send.
StartText == "{\"type\":\"start\"}"
StopText == "{\"type\":\"stop\"}"
Texts == { StartText, StopText, "{\"type\":\"ping\"}", "{}", "not json", "5" }

\* Binary frames a client may send.
Chunks == { <<1, 1, 0, 0>>, <<0>>, <<>> }

\* Texts a recognizer may return.
ResultTexts == { "", "merhaba" }

NoMsg == [kind |-> "none", text |-> "", bytes |-> <<>>]
TextMsg(t) == [kind |-> "text", text |-> t, bytes |-> <<>>]
BytesMsg(b) == [kind |-> "bytes", text |-> "", bytes |-> b]
DisconnectMsg == [kind |-> "disconnect", text |-> "", bytes |-> <<>>]

----------------------------------------------------------------------------
\* Results of calls: what came back, or that the call raised.

None == [some |-> FALSE, final |-> FALSE, text |-> ""]
Result(final, text) == [some |-> TRUE, final |-> final, text |-> text]
Returned(out) == [raised |-> FALSE, out |-> out]
Raised == [raised |-> TRUE, out |-> None]

\* One entry of the history: k = "call" (op is the callee) or "send" (op is the
\* event type); msg is the number of the message being handled, 0 during setup.
Call(op, msg, arg, o) == [k |-> "call", op |-> op, msg |-> msg, arg |-> arg, raised |-> o.raised, some |-> o.out.some, final |-> o.out.final, text |-> o.out.text]
Send(type, msg, text) == [k |-> "send", op |-> type, msg |-> msg, arg |-> <<>>, raised |-> FALSE, some |-> FALSE, final |-> FALSE, text |-> text]

IsSend(e) == e.k = "send"
IsCall(e) == e.k = "call"
Events == SelectSeq(trace, IsSend)
Calls == SelectSeq(trace, IsCall)

----------------------------------------------------------------------------
\* json.loads and payload.get("type") of stream.py:102, 107

\* json.loads(text): raises on invalid JSON, else the decoded value.
json_loads(text) ==
    CASE text = StartText -> [ok |-> TRUE, is_object |-> TRUE, type |-> "start"]
      [] text = StopText -> [ok |-> TRUE, is_object |-> TRUE, type |-> "stop"]
      [] text = "{\"type\":\"ping\"}" -> [ok |-> TRUE, is_object |-> TRUE, type |-> "ping"]
      [] text = "{}" -> [ok |-> TRUE, is_object |-> TRUE, type |-> "None"]
      [] text = "5" -> [ok |-> TRUE, is_object |-> FALSE, type |-> "None"]
      [] OTHER -> [ok |-> FALSE, is_object |-> FALSE, type |-> "None"]

----------------------------------------------------------------------------
\* Engine resolution, stream.py:14-48

\* (engine_name or "").lower()
lower(s) == IF s = "WhisperCpp" THEN "whispercpp" ELSE s

\* vosk_engine.py:16-21, called by VoskEngine.__init__ (line 51): Model(model_path)
\* is constructed only when the path is not cached, and may raise.
get_model_raises(cache, env) == VOSK_MODEL_PATH \notin cache /\ ~env.vosk_loads

\* whispercpp_engine.py:34-39: the constructor checks the same paths again.
WhisperCppEngine_init_raises(env) == ~env.cli_isfile \/ ~env.model_isfile

\* _get_engine: the engine class, an HTTPException, or another exception that a
\* constructor raised.
_get_engine(engine_name, cache, env) ==
    LET name == lower(engine_name) IN
    IF name = "vosk" THEN
        IF ~env.vosk_isdir THEN "HTTPException"
        ELSE IF get_model_raises(cache, env) THEN "Exception"
        ELSE "VoskEngine"
    ELSE IF name = "whispercpp" THEN
        IF ~env.cli_isfile THEN "HTTPException"
        ELSE IF ~env.model_isfile THEN "HTTPException"
        ELSE IF WhisperCppEngine_init_raises(env) THEN "Exception"
        ELSE "WhisperCppEngine"
    ELSE "HTTPException"

\* stream.py:82
StreamingSupported(cls) == cls = "VoskEngine"

\* stt.stream_init raises: VoskEngine builds a KaldiRecognizer (vosk_engine.py:114-118,
\* 61-68); the batch engine inherits the no-op of base.py:26-28.
stream_init_raises(cls, env) == cls = "VoskEngine" /\ ~env.kaldi_ok

----------------------------------------------------------------------------
\* The frame slicer, vad/webrtc_vad.py:31-63

\* Rounding to the nearest supported duration instead of upwards.
_normalize_frame_ms_nearest(frame_ms) == IF frame_ms < 15 THEN 10 ELSE IF frame_ms < 25 THEN 20 ELSE 30

_normalize_frame_ms(frame_ms) == IF frame_ms <= 10 THEN 10 ELSE IF frame_ms <= 20 THEN 20 ELSE 30

\* int(sample_rate * (frame_ms / 1000.0) * 2), line 52
bytes_per_frame(frame_duration_ms, sample_rate) == (sample_rate * _normalize_frame_ms(frame_duration_ms) * 2) \div 1000

\* A frame; timestamp and duration are in units of 1 / (2 * sample_rate) seconds,
\* the time of one byte (line 56: duration = bytes_per_frame / (2.0 * sample_rate)).
Frame(bytes_data, timestamp, duration) == [bytes |-> bytes_data, timestamp |-> timestamp, duration |-> duration]

\* A loop body that forgets to move on.
advance_none(offset, step) == offset

\* offset += bytes_per_frame, line 62
advance(offset, step) == offset + step

\* The while loop of lines 58-63.
RECURSIVE frame_loop(_, _, _, _)
frame_loop(pcm16, bpf, offset, timestamp) ==
    IF offset + bpf <= Len(pcm16)
    THEN <<Frame(SubSeq(pcm16, offset + 1, offset + bpf), timestamp, bpf)>> \o frame_loop(pcm16, bpf, offset + bpf, timestamp + bpf)
    ELSE <<>>

\* A slicer that also yields the trailing remainder as a short frame.
frame_generator_keep_tail(frame_duration_ms, pcm16, sample_rate) ==
    LET bpf == bytes_per_frame(frame_duration_ms, sample_rate)
        fs == frame_loop(pcm16, bpf, 0, 0)
        r == Len(pcm16) % bpf
    IN  IF r = 0 THEN fs ELSE Append(fs, Frame(SubSeq(pcm16, Len(pcm16) - r + 1, Len(pcm16)), Len(fs) * bpf, bpf))

frame_generator(frame_duration_ms, pcm16, sample_rate) == frame_loop(pcm16, bytes_per_frame(frame_duration_ms, sample_rate), 0, 0)

----------------------------------------------------------------------------
\* The voice activity segmenter, vad/webrtc_vad.py:66-123

\* vad.is_speech(frame.bytes, sample_rate), line 97: the classifier is a library;
\* here a frame is speech when one of its bytes is not 0.
is_speech(frame) == \E i \in 1..Len(frame.bytes) : frame.bytes[i] # 0

\* int(x / y) for y > 0: truncation towards zero
int_div(x, y) == IF x >= 0 THEN x \div y ELSE -((-x) \div y)

\* line 85
num_padding_frames(padding_duration_ms, frame_duration_ms) ==
    LET q == int_div(padding_duration_ms, _normalize_frame_ms(frame_duration_ms)) IN
    IF q > 1 THEN q ELSE 1

\* A deque without maxlen.
deque_append_unbounded(ring, x, maxlen) == Append(ring, x)

\* deque(maxlen=...).append: the oldest entry leaves a full deque
deque_append(ring, x, maxlen) == IF Len(ring) >= maxlen THEN Append(Tail(ring), x) ELSE Append(ring, x)

\* _emit_segment, lines 91-94
RECURSIVE _emit_segment(_)
_emit_segment(frames_list) == IF frames_list = <<>> THEN <<>> ELSE Head(frames_list).bytes \o _emit_segment(Tail(frames_list))

\* Counting every frame of the ring as voiced.
num_frames(ring) == Len(ring)

\* An offset that keeps the frames of the segment it has just yielded.
voiced_clear_keep(voiced_frames) == voiced_frames

\* voiced_frames.clear(), line 118
voiced_clear(voiced_frames) == <<>>

num_voiced(ring) == Cardinality({i \in 1..Len(ring) : ring[i].speech})
num_unvoiced(ring) == Cardinality({i \in 1..Len(ring) : ~ring[i].speech})

\* The state of the collector before the first frame, lines 86-89.  `out`
\* collects the segments yielded; `segments` is a history: the frames
\* underlying each of them.
vad_init == [triggered |-> FALSE, ring_buffer |-> <<>>, voiced_frames |-> <<>>, out |-> <<>>, segments |-> <<>>]

\* One pass of the for loop, lines 96-119.
vad_step(st, frame, maxlen) ==
    LET entry == [frame |-> frame, speech |-> is_speech(frame)]
        ring == deque_append(st.ring_buffer, entry, maxlen)
    IN  IF ~st.triggered THEN
            IF 10 * num_voiced(ring) > 9 * maxlen
            THEN [st EXCEPT !.triggered = TRUE,
                            !.voiced_frames = st.voiced_frames \o [i \in 1..Len(ring) |-> ring[i].frame],
                            !.ring_buffer = <<>>]
            ELSE [st EXCEPT !.ring_buffer = ring]
        ELSE
            IF 10 * num_unvoiced(ring) > 9 * maxlen
            THEN [st EXCEPT !.triggered = FALSE,
                            !.out = Append(st.out, _emit_segment(Append(st.voiced_frames, frame))),
                            !.segments = Append(st.segments, Append(st.voiced_frames, frame)),
                            !.voiced_frames = voiced_clear(Append(st.voiced_frames, frame)),
                            !.ring_buffer = <<>>]
            ELSE [st EXCEPT !.voiced_frames = Append(st.voiced_frames, frame),
                            !.ring_buffer = ring]

RECURSIVE vad_loop(_, _, _)
vad_loop(frames, st, maxlen) == IF frames = <<>> THEN st ELSE vad_loop(Tail(frames), vad_step(st, Head(frames), maxlen), maxlen)

\* An end of input that yields nothing.
vad_flush_none(st) == st

\* An end of input that yields what is in progress and, when nothing is, the
\* frames still held in the ring buffer.
vad_flush_ring(st) ==
    LET held == IF st.voiced_frames # <<>> THEN st.voiced_frames
                ELSE [i \in 1..Len(st.ring_buffer) |-> st.ring_buffer[i].frame]
    IN  IF held # <<>>
        THEN [st EXCEPT !.out = Append(st.out, _emit_segment(held)), !.segments = Append(st.segments, held)]
        ELSE st

\* The end of the input, lines 121-123.
vad_flush(st) ==
    IF st.voiced_frames # <<>>
    THEN [st EXCEPT !.out = Append(st.out, _emit_segment(st.voiced_frames)),
                    !.segments = Append(st.segments, st.voiced_frames)]
    ELSE st

\* The segments the generator yields when it is run to its end, lines 83-123.
vad_collector(sample_rate, frame_duration_ms, padding_duration_ms, aggressiveness, frames) ==
    vad_flush(vad_loop(frames, vad_init, num_padding_frames(padding_duration_ms, frame_duration_ms))).out

----------------------------------------------------------------------------
\* The streaming engine, engines/vosk_engine.py:120-149

\* stream_feed: None without a recognizer; else a final result (AcceptWaveform
\* returned True), a partial one, or an exception of the recognizer.
stream_feed(rec) ==
    IF ~rec THEN {Returned(None)}
    ELSE {Returned(Result(TRUE, "merhaba")), Returned(Result(FALSE, "")), Raised}

\* stream_finalize: None without a recognizer; else FinalResult() as a final
\* result, whose text is empty when nothing was left to flush.
stream_finalize(rec) ==
    IF ~rec THEN {Returned(None)}
    ELSE {Returned(Result(TRUE, t)) : t \in ResultTexts} \cup {Raised}

\* stt.transcribe of the batch engine (whispercpp_engine.py:116-196): a result
\* with some text, or an exception.
transcribe(pcm16) == {Returned(Result(TRUE, t)) : t \in ResultTexts} \cup {Raised}

----------------------------------------------------------------------------
\* What the handler does with a result

\* A slip that drops the report of a failed stream_feed.
feed_events_silent(o, n) ==
    IF o.raised THEN <<>>
    ELSE IF o.out.some THEN
        IF o.out.final THEN <<Send("final", n, o.out.text)>> ELSE <<Send("partial", n, o.out.text)>>
    ELSE <<>>

\* A slip that reports every result as a partial one.
feed_events_always_partial(o, n) ==
    IF o.raised THEN <<Send("error", n, "stream_feed failed")>>
    ELSE IF o.out.some THEN <<Send("partial", n, o.out.text)>>
    ELSE <<>>

\* stream.py:159-177, message number n
feed_events(o, n) ==
    IF o.raised THEN <<Send("error", n, "stream_feed failed")>>
    ELSE IF o.out.some THEN
        IF o.out.final THEN <<Send("final", n, o.out.text)>> ELSE <<Send("partial", n, o.out.text)>>
    ELSE <<>>

\* A slip that sends a final event for every result, whatever its text.
finalize_events_any_text(o, n) ==
    IF o.raised THEN <<Send("error", n, "finalize failed")>>
    ELSE IF o.out.some THEN <<Send("final", n, o.out.text)>>
    ELSE <<>>

\* stream.py:116-126
finalize_events(o, n) ==
    IF o.raised THEN <<Send("error", n, "finalize failed")>>
    ELSE IF o.out.some /\ o.out.text # "" THEN <<Send("final", n, o.out.text)>>
    ELSE <<>>

\* A stop that finalizes the recognizer a second time after reporting.
stop_streaming_finalize_twice(o, n) == <<Call("stream_finalize", n, <<>>, o)>> \o finalize_events(o, n) \o <<Call("stream_finalize", n, <<>>, o), Send("done", n, "")>>

\* A stop that falls through to the batch flush after finalizing.
stop_streaming_then_flush(o, n) == <<Call("stream_finalize", n, <<>>, o)>> \o finalize_events(o, n) \o <<Call("frame_generator", n, <<>>, Returned(None)), Send("done", n, "")>>

\* A slip in the order of the sends: done before the events of stream_finalize.
stop_streaming_done_first(o, n) == <<Call("stream_finalize", n, <<>>, o), Send("done", n, "")>> \o finalize_events(o, n)

\* stream.py:115-126, 146: what stop does with a streaming engine, o being the
\* outcome of stream_finalize
stop_streaming(o, n) == <<Call("stream_finalize", n, <<>>, o)>> \o finalize_events(o, n) \o <<Send("done", n, "")>>

\* A slip that treats the batch results like those of stream_finalize: no final
\* event for an empty text.
RECURSIVE transcribe_loop_skip_empty(_, _, _, _)
transcribe_loop_skip_empty(segs, os, i, n) ==
    IF i > Len(segs) THEN <<>>
    ELSE IF os[i].raised THEN <<Call("transcribe", n, segs[i], os[i]), Send("error", n, "VAD/batch failed")>>
    ELSE <<Call("transcribe", n, segs[i], os[i])>> \o (IF os[i].out.text # "" THEN <<Send("final", n, os[i].out.text)>> ELSE <<>>) \o transcribe_loop_skip_empty(segs, os, i + 1, n)

\* stream.py:133-142: the for loop over the segments, os[i] being the outcome of
\* transcribe on segs[i]; the first exception leaves the loop.
RECURSIVE transcribe_loop(_, _, _, _)
transcribe_loop(segs, os, i, n) ==
    IF i > Len(segs) THEN <<>>
    ELSE IF os[i].raised THEN <<Call("transcribe", n, segs[i], os[i]), Send("error", n, "VAD/batch failed")>>
    ELSE <<Call("transcribe", n, segs[i], os[i]), Send("final", n, os[i].out.text)>> \o transcribe_loop(segs, os, i + 1, n)

\* stream.py:130-144 for a non-empty buffer; vad_raises: is_speech raised on
\* the first frame (a sample rate or frame length the classifier rejects).
batch_flush(q, buf, vad_raises, os, n) ==
    LET frames == frame_generator(q.vad_frame_ms, buf, q.sample_rate)
        segs == vad_collector(q.sample_rate, q.vad_frame_ms, q.vad_padding_ms, q.vad_aggr, frames)
    IN  IF vad_raises /\ frames # <<>>
        THEN <<Call("frame_generator", n, buf, Returned(None)), Call("vad_collector", n, <<>>, Raised), Send("error", n, "VAD/batch failed")>>
        ELSE <<Call("frame_generator", n, buf, Returned(None)), Call("vad_collector", n, <<>>, Returned(None))>> \o transcribe_loop(segs, os, 1, n)

\* A slip that runs the flush without looking at the buffer.
stop_batch_always_flush(q, buf, vad_raises, os, n) == batch_flush(q, buf, vad_raises, os, n) \o <<Send("done", n, "")>>

\* A slip that leaves the stop branch when the flush has failed: no done after
\* the error event.
stop_batch_abort_on_error(q, buf, vad_raises, os, n) ==
    IF buf # <<>> THEN
        LET flush == batch_flush(q, buf, vad_raises, os, n)
        IN  IF flush[Len(flush)].op = "error" THEN flush ELSE flush \o <<Send("done", n, "")>>
    ELSE <<Send("done", n, "")>>

\* stream.py:129-146: what stop does with a batch engine.
stop_batch(q, buf, vad_raises, os, n) ==
    IF buf # <<>> THEN batch_flush(q, buf, vad_raises, os, n) \o <<Send("done", n, "")>>
    ELSE <<Send("done", n, "")>>

\* The segments of a buffer under the session's parameters.
Segments(q, buf) == vad_collector(q.sample_rate, q.vad_frame_ms, q.vad_padding_ms, q.vad_aggr, frame_generator(q.vad_frame_ms, buf, q.sample_rate))

\* A flush that clears the buffer at the end of the try body instead of in
\* the finally clause: a failed flush keeps the audio.
buffer_clear_on_success(buf, flush) ==
    IF \E i \in 1..Len(flush) : flush[i].k = "send" /\ flush[i].op = "error" THEN buf ELSE <<>>

\* stream.py:130, 143-144: `finally: buffer.clear()` of the flush, which runs
\* only on a non-empty buffer; flush is what the stop handling called and sent.
buffer_clear(buf, flush) == <<>>

\* A handler that takes start without acknowledging it.
start_events_none(n) == <<>>

\* stream.py:109-111: the acknowledgment of a start message.
start_events(n) == <<Send("ack", n, "")>>

\* A handler that keeps only the newest chunk.
buffer_extend_overwrite(buf, chunk) == chunk

\* A handler that puts the newest chunk in front of the older audio.
buffer_extend_prepend(buf, chunk) == chunk \o buf

\* stream.py:178-180: buffer.extend(chunk)
buffer_extend(buf, chunk) == buf \o chunk

----------------------------------------------------------------------------
\* No function is being called directly.
FnIdle ==
    /\ fn_arg = 0
    /\ fn_ret = 0
    /\ returned = FALSE

\* No concurrent sessions.
LoopIdle ==
    /\ sess = <<>>
    /\ engines = <<>>
    /\ model_cache = <<>>
    /\ models = <<>>

OthersIdle == FnIdle /\ LoopIdle

Init ==
    /\ query \in Queries
    /\ pc = "accept"
    /\ exit = ""
    /\ streaming_supported = FALSE
    /\ recognizer = FALSE
    /\ MODEL_CACHE = {}
    /\ buffer = <<>>
    /\ chunks = <<>>
    /\ nRecv = 0
    /\ last = NoMsg
    /\ disconnected = FALSE
    /\ closes = 0
    /\ trace = <<>>
    /\ budget = MaxMsgs
    /\ OthersIdle

\* stream.py:71-93: accept, resolve the engine, stream_init, create the buffer.
Accept ==
    /\ pc = "accept"
    /\ \E env \in Envs :
        LET stt == _get_engine(query.engine, MODEL_CACHE, env) IN
        IF stt = "HTTPException" THEN
            /\ trace' = Append(trace, Send("error", 0, "resolve"))
            /\ closes' = closes + 1
            /\ pc' = "return"
            /\ exit' = "setup_error"
            /\ UNCHANGED <<streaming_supported, recognizer, MODEL_CACHE>>
        ELSE IF stt = "Exception" THEN
            \* not an HTTPException: it leaves the handler
            /\ pc' = "return"
            /\ exit' = "unhandled"
            /\ UNCHANGED <<trace, closes, streaming_supported, recognizer, MODEL_CACHE>>
        ELSE
            /\ MODEL_CACHE' = IF stt = "VoskEngine" THEN MODEL_CACHE \cup {VOSK_MODEL_PATH} ELSE MODEL_CACHE
            /\ streaming_supported' = StreamingSupported(stt)
            /\ IF stream_init_raises(stt, env) THEN
                  /\ trace' = trace \o <<Call("stream_init", 0, <<>>, Raised), Send("error", 0, "stream_init failed")>>
                  /\ closes' = closes + 1
                  /\ pc' = "return"
                  /\ exit' = "setup_error"
                  /\ UNCHANGED recognizer
               ELSE
                  /\ trace' = Append(trace, Call("stream_init", 0, <<>>, Returned(None)))
                  /\ recognizer' = (stt = "VoskEngine")
                  /\ pc' = "receive"
                  /\ UNCHANGED <<closes, exit>>
    /\ UNCHANGED <<query, budget, others, chunks, buffer, nRecv, last, disconnected>>

\* ws.receive() hands out the next message: the loop is running, the client has
\* not been seen to leave, and the session's message budget is not used up.
CanReceive == pc = "receive" /\ ~disconnected /\ nRecv < budget

\* stream.py:185-194: an exception nothing else caught; an error event and a
\* close are attempted, then the handler ends.
Unexpected(n) ==
    /\ trace' = Append(trace, Send("error", n, "unexpected"))
    /\ closes' = closes + 1
    /\ pc' = "return"
    /\ exit' = "unexpected"

\* stream.py:100-105: a text frame json.loads rejects.
OnInvalidJson ==
    /\ CanReceive
    /\ \E t \in Texts :
        /\ ~json_loads(t).ok
        /\ last' = TextMsg(t)
    /\ nRecv' = nRecv + 1
    /\ UNCHANGED <<query, budget, others, pc, exit, streaming_supported, recognizer, MODEL_CACHE, chunks, buffer, disconnected, closes, trace>>

\* stream.py:107: payload.get on a decoded value that is not an object raises
\* AttributeError outside every inner try.
OnNonObject ==
    /\ CanReceive
    /\ \E t \in Texts :
        /\ json_loads(t).ok /\ ~json_loads(t).is_object
        /\ last' = TextMsg(t)
    /\ nRecv' = nRecv + 1
    /\ Unexpected(nRecv + 1)
    /\ UNCHANGED <<query, budget, others, streaming_supported, recognizer, MODEL_CACHE, chunks, buffer, disconnected>>

\* stream.py:109-111
OnStart ==
    /\ CanReceive
    /\ \E t \in Texts :
        /\ json_loads(t).ok /\ json_loads(t).is_object /\ json_loads(t).type = "start"
        /\ last' = TextMsg(t)
    /\ nRecv' = nRecv + 1
    /\ trace' = trace \o start_events(nRecv + 1)
    /\ UNCHANGED <<query, budget, others, pc, exit, streaming_supported, recognizer, MODEL_CACHE, chunks, buffer, disconnected, closes>>

\* stream.py:150-151: an object whose type is neither start nor stop.
OnUnknownType ==
    /\ CanReceive
    /\ \E t \in Texts :
        /\ json_loads(t).ok /\ json_loads(t).is_object /\ json_loads(t).type \notin {"start", "stop"}
        /\ last' = TextMsg(t)
    /\ nRecv' = nRecv + 1
    /\ UNCHANGED <<query, budget, others, pc, exit, streaming_supported, recognizer, MODEL_CACHE, chunks, buffer, disconnected, closes, trace>>

\* stream.py:113-126, 146-148: stop with a streaming engine.
OnStopStreaming ==
    /\ CanReceive
    /\ streaming_supported
    /\ \E t \in Texts :
        /\ json_loads(t).ok /\ json_loads(t).is_object /\ json_loads(t).type = "stop"
        /\ last' = TextMsg(t)
    /\ nRecv' = nRecv + 1
    /\ \E o \in stream_finalize(recognizer) :
        trace' = trace \o stop_streaming(o, nRecv + 1)
    /\ closes' = closes + 1
    /\ pc' = "return"
    /\ exit' = "stop"
    /\ UNCHANGED <<query, budget, others, streaming_supported, recognizer, MODEL_CACHE, chunks, buffer, disconnected>>

\* stream.py:113, 128-148: stop with a batch engine.
OnStopBatch ==
    /\ CanReceive
    /\ ~streaming_supported
    /\ \E t \in Texts :
        /\ json_loads(t).ok /\ json_loads(t).is_object /\ json_loads(t).type = "stop"
        /\ last' = TextMsg(t)
    /\ nRecv' = nRecv + 1
    /\ \E vad_raises \in BOOLEAN : \E os \in [1..Len(Segments(query, buffer)) -> transcribe(<<>>)] :
        LET flush == stop_batch(query, buffer, vad_raises, os, nRecv + 1) IN
        /\ trace' = trace \o flush
        /\ buffer' = IF buffer # <<>> THEN buffer_clear(buffer, flush) ELSE buffer
    /\ closes' = closes + 1
    /\ pc' = "return"
    /\ exit' = "stop"
    /\ UNCHANGED <<query, budget, others, streaming_supported, recognizer, MODEL_CACHE, chunks, disconnected>>

\* stream.py:154-177: a binary chunk with a streaming engine.
OnChunkStreaming ==
    /\ CanReceive
    /\ streaming_supported
    /\ \E chunk \in Chunks :
        /\ last' = BytesMsg(chunk)
        /\ \E o \in stream_feed(recognizer) :
            trace' = trace \o <<Call("stream_feed", nRecv + 1, chunk, o)>> \o feed_events(o, nRecv + 1)
        /\ chunks' = Append(chunks, chunk)
    /\ nRecv' = nRecv + 1
    /\ UNCHANGED <<query, budget, others, pc, exit, streaming_supported, recognizer, MODEL_CACHE, buffer, disconnected, closes>>

\* stream.py:154-155, 178-180: a binary chunk with a batch engine.
OnChunkBatch ==
    /\ CanReceive
    /\ ~streaming_supported
    /\ \E chunk \in Chunks :
        /\ last' = BytesMsg(chunk)
        /\ buffer' = buffer_extend(buffer, chunk)
        /\ chunks' = Append(chunks, chunk)
    /\ nRecv' = nRecv + 1
    /\ UNCHANGED <<query, budget, others, pc, exit, streaming_supported, recognizer, MODEL_CACHE, disconnected, closes, trace>>

\* stream.py:97, 182-184: the client left and ws.receive() raises
\* WebSocketDisconnect.
OnDisconnectRaised ==
    /\ CanReceive
    /\ last' = DisconnectMsg
    /\ nRecv' = nRecv + 1
    /\ disconnected' = TRUE
    /\ pc' = "return"
    /\ exit' = "disconnect"
    /\ UNCHANGED <<query, budget, others, streaming_supported, recognizer, MODEL_CACHE, chunks, buffer, closes, trace>>

\* stream.py:97, 100, 154: the client left and ws.receive() returns the
\* disconnect message, which holds neither "text" nor "bytes": the loop goes on.
OnDisconnectMessage ==
    /\ CanReceive
    /\ last' = DisconnectMsg
    /\ nRecv' = nRecv + 1
    /\ disconnected' = TRUE
    /\ UNCHANGED <<query, budget, others, pc, exit, streaming_supported, recognizer, MODEL_CACHE, chunks, buffer, closes, trace>>

\* stream.py:97, 185-194: ws.receive() after the disconnect message raises
\* RuntimeError.
OnReceiveAfterDisconnect ==
    /\ pc = "receive"
    /\ disconnected
    /\ Unexpected(nRecv)
    /\ UNCHANGED <<query, budget, others, streaming_supported, recognizer, MODEL_CACHE, chunks, buffer, nRecv, last, disconnected>>

Next ==
    \/ Accept
    \/ OnInvalidJson
    \/ OnNonObject
    \/ OnStart
    \/ OnUnknownType
    \/ OnStopStreaming
    \/ OnStopBatch
    \/ OnChunkStreaming
    \/ OnChunkBatch
    \/ OnDisconnectRaised
    \/ OnDisconnectMessage
    \/ OnReceiveAfterDisconnect

Spec == Init /\ [][Next]_vars

----------------------------------------------------------------------------
\* Reading the history

\* The entries, the sends and the event types of message number n.
EntriesOf(n) == SelectSeq(trace, LAMBDA e : e.msg = n)
SendsOf(n) == SelectSeq(trace, LAMBDA e : e.k = "send" /\ e.msg = n)
Types(entries) == [i \in 1..Len(entries) |-> entries[i].op]
Args(entries) == [i \in 1..Len(entries) |-> entries[i].arg]
CallsTo(op) == SelectSeq(trace, LAMBDA e : e.k = "call" /\ e.op = op)

IsFeed(e) == e.k = "call" /\ e.op = "stream_feed"
FeedMsgs == {trace[p].msg : p \in {q \in 1..Len(trace) : IsFeed(trace[q])}}
FailedFeeds == {p \in 1..Len(trace) : IsFeed(trace[p]) /\ trace[p].raised}

RECURSIVE Concat(_)
Concat(seqs) == IF seqs = <<>> THEN <<>> ELSE Head(seqs) \o Concat(Tail(seqs))

\* All audio received, in arrival order.
Audio == Concat(chunks)

NoCallRaised == \A p \in 1..Len(trace) : ~trace[p].raised

\* The handler has left the loop through stop (stream.py:146-148).
Stopped == pc = "return" /\ exit = "stop"

----------------------------------------------------------------------------
\* C1: in a streaming-mode session the messages are handled in arrival order:
\* the history is ordered by message number, the chunks are fed in the order
\* they arrived, every event a chunk produces directly follows the stream_feed
\* call of that chunk (so it precedes the feed of the next chunk), and after
\* stop the event stream ends with done, preceded by at most one final of
\* stream_finalize.
C1_StreamingOrder ==
    (streaming_supported /\ pc # "accept" /\ exit # "setup_error") =>
        /\ \A i, j \in 1..Len(trace) : i < j => trace[i].msg <= trace[j].msg
        /\ Args(CallsTo("stream_feed")) = chunks
        /\ \A p \in 1..Len(trace) :
            (IsSend(trace[p]) /\ (trace[p].msg \in FeedMsgs \/ trace[p].op = "partial" \/ (trace[p].op = "final" /\ ~(Stopped /\ trace[p].msg = nRecv))))
                => (p > 1 /\ IsFeed(trace[p - 1]) /\ trace[p - 1].msg = trace[p].msg)
        /\ Stopped =>
            /\ Types(SendsOf(nRecv)) \in {<<"done">>, <<"final", "done">>, <<"error", "done">>}
            /\ trace[Len(trace)] = Send("done", nRecv, "")

C1_Witness ==
    /\ streaming_supported /\ Stopped
    /\ Len(chunks) >= 2
    /\ \E m1, m2 \in 1..nRecv : m1 < m2 /\ Types(SendsOf(m1)) = <<"partial">> /\ Types(SendsOf(m2)) = <<"final">>
    /\ Types(SendsOf(nRecv)) = <<"final", "done">>

----------------------------------------------------------------------------
\* C2: when engine resolution or stream_init fails, the session sends exactly
\* one error event and nothing else, closes the connection, never feeds or
\* buffers audio, and the handler does not end with an unhandled exception.
SetupFailed == pc = "return" /\ exit \in {"setup_error", "unhandled"}

C2_SetupFailureReported ==
    SetupFailed =>
        /\ Types(Events) = <<"error">>
        /\ closes = 1
        /\ exit # "unhandled"
        /\ buffer = <<>> /\ chunks = <<>>
        /\ CallsTo("stream_feed") = <<>> /\ CallsTo("transcribe") = <<>>

----------------------------------------------------------------------------
\* C3: a text frame that is not a start or stop object (invalid JSON, a JSON
\* value that is not an object, an object without type, an object with another
\* type) is ignored: handling it sends nothing, calls nothing, leaves the
\* buffer, the engine and the handler's position unchanged and closes nothing.
Recognized(t) == json_loads(t).ok /\ json_loads(t).is_object /\ json_loads(t).type \in {"start", "stop"}

C3_UnrecognizedTextIgnored ==
    [][(nRecv' = nRecv + 1 /\ last'.kind = "text" /\ ~Recognized(last'.text))
        => (trace' = trace /\ buffer' = buffer /\ recognizer' = recognizer /\ pc' = pc /\ exit' = exit /\ closes' = closes)]_vars

----------------------------------------------------------------------------
\* C4: in a streaming-mode session a failed stream_feed is answered by exactly
\* one error event for that chunk and is not fatal: the handler stays in the
\* loop with the connection open, a chunk received later is fed, and a stop
\* received later still ends with done.
C4_FeedFailureNotFatal ==
    streaming_supported =>
        /\ \A p \in FailedFeeds :
            /\ Types(SendsOf(trace[p].msg)) = <<"error">>
            /\ p < Len(trace) /\ trace[p + 1] = Send("error", trace[p].msg, "stream_feed failed")
        /\ (FailedFeeds # {} /\ last.kind = "bytes") =>
            /\ pc = "receive" /\ closes = 0 /\ exit = ""
            /\ \E p \in 1..Len(trace) : IsFeed(trace[p]) /\ trace[p].msg = nRecv /\ trace[p].arg = last.bytes
        /\ (FailedFeeds # {} /\ last = TextMsg(StopText)) =>
            /\ Stopped /\ closes = 1
            /\ trace[Len(trace)] = Send("done", nRecv, "")

C4_Witness ==
    /\ streaming_supported /\ Stopped
    /\ \E p \in FailedFeeds : \E q \in 1..Len(trace) : q > p /\ IsFeed(trace[q]) /\ ~trace[q].raised
    /\ trace[Len(trace)].op = "done"

----------------------------------------------------------------------------
\* C5: in a batch flush over segments s1..sn every transcribe failure is
\* caught by itself: transcribe is called on every segment, in segment order,
\* a failed call is followed by one error event and a successful one by its
\* final event.
C5_TranscribeFailurePerSegment ==
    (Stopped /\ ~streaming_supported /\ Audio # <<>> /\ \A e \in {trace[p] : p \in 1..Len(trace)} : ~(e.op = "vad_collector" /\ e.raised)) =>
        /\ Args(CallsTo("transcribe")) = Segments(query, Audio)
        /\ \A p \in 1..Len(trace) : (IsCall(trace[p]) /\ trace[p].op = "transcribe") =>
            /\ p < Len(trace)
            /\ trace[p + 1] = IF trace[p].raised THEN Send("error", nRecv, "VAD/batch failed") ELSE Send("final", nRecv, trace[p].text)

----------------------------------------------------------------------------
\* C6: once the disconnect of the client has been received, the handler calls
\* no engine, slices and transcribes nothing and sends (or tries to send) no
\* event of any type; only a close may follow.
C6_SilentDisconnect ==
    disconnected => \A p \in 1..Len(trace) : trace[p].msg < nRecv

----------------------------------------------------------------------------
\* C7 as stated: on stop in a streaming-mode session stream_finalize is called
\* exactly once, a final event is sent if and only if stream_finalize returned
\* a result, whatever its text; then done is sent and the connection closed.
C7_FinalIffResult ==
    (Stopped /\ streaming_supported) =>
        /\ Len(CallsTo("stream_finalize")) = 1
        /\ LET f == CallsTo("stream_finalize")[1] IN
            (\E i \in 1..Len(SendsOf(nRecv)) : SendsOf(nRecv)[i].op = "final") <=> (~f.raised /\ f.some)
        /\ trace[Len(trace)] = Send("done", nRecv, "")
        /\ closes = 1

\* C7 amended: on stop in a streaming-mode session stream_finalize is called
\* exactly once; a final event is sent if and only if stream_finalize returned
\* a result whose text is not empty (a failed call sends an error event
\* instead); then done is sent, the connection closed and the handler ends.
C7_FinalIffNonEmptyText ==
    (Stopped /\ streaming_supported) =>
        /\ Len(CallsTo("stream_finalize")) = 1
        /\ LET f == CallsTo("stream_finalize")[1] IN
            /\ f.msg = nRecv
            /\ SendsOf(nRecv) =
                (IF f.raised THEN <<Send("error", nRecv, "finalize failed")>>
                 ELSE IF f.some /\ f.text # "" THEN <<Send("final", nRecv, f.text)>>
                 ELSE <<>>) \o <<Send("done", nRecv, "")>>
        /\ trace[Len(trace)] = Send("done", nRecv, "")
        /\ closes = 1

C7_Witness ==
    /\ Stopped /\ streaming_supported
    /\ \E p \in 1..Len(trace) : trace[p].op = "stream_finalize" /\ ~trace[p].raised /\ trace[p].some /\ trace[p].text = ""
    /\ Types(SendsOf(nRecv)) = <<"done">>
    /\ Len(chunks) >= 1

----------------------------------------------------------------------------
\* C8: on stop in a batch-mode session whose buffer holds audio, and when no
\* call of the flush fails, the buffer is sliced and segmented once,
\* transcribe is called once per segment in segment order, each call is
\* followed by the final event of its segment (also when the text is empty),
\* then done is sent and the connection closed.
C8_BatchStopFlush ==
    (Stopped /\ ~streaming_supported /\ Audio # <<>> /\ NoCallRaised) =>
        LET segs == Segments(query, Audio)
            e == EntriesOf(nRecv)
        IN  /\ Len(e) = 3 + 2 * Len(segs)
            /\ e[1] = Call("frame_generator", nRecv, Audio, Returned(None))
            /\ e[2] = Call("vad_collector", nRecv, <<>>, Returned(None))
            /\ \A i \in 1..Len(segs) :
                /\ IsCall(e[2 * i + 1]) /\ e[2 * i + 1].op = "transcribe" /\ e[2 * i + 1].arg = segs[i]
                /\ e[2 * i + 2] = Send("final", nRecv, e[2 * i + 1].text)
            /\ e[Len(e)] = Send("done", nRecv, "")
            /\ trace[Len(trace)] = e[Len(e)]
            /\ closes = 1

C8_Witness ==
    /\ Stopped /\ ~streaming_supported /\ NoCallRaised
    /\ Len(Segments(query, Audio)) >= 2
    /\ Len(CallsTo("transcribe")) >= 2
    /\ \E i \in 1..Len(Events) : Events[i] = Send("final", nRecv, "")

----------------------------------------------------------------------------
\* C9: in a batch-mode session a stop received while the buffer is empty sends
\* done and nothing else, with no final or error event before it, calls
\* neither the slicer, the segmenter nor transcribe, and closes the connection.
C9_BatchStopEmptyBuffer ==
    (Stopped /\ ~streaming_supported /\ Audio = <<>>) =>
        /\ EntriesOf(nRecv) = <<Send("done", nRecv, "")>>
        /\ \A i \in 1..Len(Calls) : Calls[i].op \notin {"frame_generator", "vad_collector", "transcribe"}
        /\ \A i \in 1..Len(Events) : Events[i].op \in {"ack", "done"}
        /\ trace[Len(trace)] = Send("done", nRecv, "")
        /\ closes = 1

C9_Witness ==
    /\ Stopped /\ ~streaming_supported /\ Audio = <<>>
    /\ chunks # <<>>
    /\ Types(Events) = <<"ack", "done">>

----------------------------------------------------------------------------
\* C10: in a streaming-mode session every binary chunk causes exactly one
\* stream_feed call, in arrival order, and a successful call at most one
\* event: none when the engine returned nothing, one partial event for a
\* result that is not final, one final event for a final result; after a
\* final result the handler stays in the loop and goes on feeding.
C10_OneFeedPerChunk ==
    (streaming_supported /\ pc # "accept" /\ exit # "setup_error") =>
        /\ Args(CallsTo("stream_feed")) = chunks
        /\ Cardinality(FeedMsgs) = Len(chunks)
        /\ \A p \in 1..Len(trace) : (IsFeed(trace[p]) /\ ~trace[p].raised) =>
            SendsOf(trace[p].msg) =
                IF ~trace[p].some THEN <<>>
                ELSE IF trace[p].final THEN <<Send("final", trace[p].msg, trace[p].text)>>
                ELSE <<Send("partial", trace[p].msg, trace[p].text)>>
        /\ last.kind = "bytes" => (pc = "receive" /\ recognizer /\ closes = 0)

C10_Witness ==
    /\ streaming_supported /\ pc = "receive"
    /\ \E p, q \in 1..Len(trace) :
        /\ p < q
        /\ IsFeed(trace[p]) /\ trace[p].final /\ Types(SendsOf(trace[p].msg)) = <<"final">>
        /\ IsFeed(trace[q]) /\ trace[q].some /\ ~trace[q].final /\ Types(SendsOf(trace[q].msg)) = <<"partial">>

----------------------------------------------------------------------------
\* A session whose setup succeeded with an engine that is not streaming-capable.
BatchSession == ~streaming_supported /\ pc # "accept" /\ exit \notin {"setup_error", "unhandled"}

\* C11: in a batch-mode session a binary chunk is only appended to the
\* accumulation buffer: the message of a chunk has no event and no engine call,
\* and the buffer then holds every chunk received so far; no partial event is
\* ever emitted; final events and engine calls after setup appear only while
\* the stop message is handled.
C11_BatchChunkOnlyBuffers ==
    BatchSession =>
        /\ last.kind = "bytes" =>
            /\ EntriesOf(nRecv) = <<>>
            /\ buffer = Audio
            /\ pc = "receive"
        /\ \A p \in 1..Len(trace) :
            /\ ~(trace[p].k = "send" /\ trace[p].op = "partial")
            /\ (trace[p].k = "send" /\ trace[p].op = "final") \/ (trace[p].k = "call" /\ trace[p].msg > 0) =>
                /\ Stopped
                /\ trace[p].msg = nRecv
                /\ last.kind = "text" /\ json_loads(last.text).type = "stop"

\* Two chunks have been buffered after a start, the second one not empty.
C11_Witness ==
    /\ BatchSession
    /\ pc = "receive"
    /\ last.kind = "bytes" /\ last.bytes # <<>>
    /\ Len(chunks) = 2 /\ chunks[1] # <<>>
    /\ Len(trace) > 1

----------------------------------------------------------------------------
\* The message m is a text frame holding a JSON object of the given type.
IsControl(m, type) == m.kind = "text" /\ json_loads(m.text).ok /\ json_loads(m.text).is_object /\ json_loads(m.text).type = type

\* C12: a start message, wherever it arrives before stop, yields exactly one
\* ack event and nothing else: the step that handles it appends one ack to the
\* history and leaves the accumulation buffer, the engine (recognizer, model
\* registry, mode), the chunks taken so far and the lifecycle (loop position,
\* exit, closes) unchanged.  As no step reads the history, the events of a
\* session without the start messages are the same minus the acks.
C12_StartOnlyAcks ==
    [][(nRecv' = nRecv + 1 /\ IsControl(last', "start")) =>
            /\ trace' = Append(trace, Send("ack", nRecv', ""))
            /\ buffer' = buffer
            /\ chunks' = chunks
            /\ recognizer' = recognizer
            /\ streaming_supported' = streaming_supported
            /\ MODEL_CACHE' = MODEL_CACHE
            /\ pc = "receive" /\ pc' = pc
            /\ exit' = exit
            /\ closes' = closes
            /\ disconnected' = disconnected]_vars

\* A start arrived in the middle of a session, after audio and another start.
C12_Witness ==
    /\ pc = "receive"
    /\ IsControl(last, "start")
    /\ chunks # <<>> /\ Audio # <<>>
    /\ Len(SelectSeq(trace, LAMBDA e : e.k = "send" /\ e.op = "ack")) = 2
    /\ trace[Len(trace)] = Send("ack", nRecv, "")

----------------------------------------------------------------------------
\* The lifecycle state of the session, read off the handler's position:
\* CONNECTING until setup is over (stream.py:71-93), READY in the loop before
\* the first audio chunk, STREAMING after it, CLOSED once the handler has
\* returned (done, setup error, unexpected error) or the client's disconnect
\* has been received.  ERROR is passed through inside the setup step.
Lifecycle ==
    IF pc = "accept" THEN "CONNECTING"
    ELSE IF pc = "return" \/ disconnected THEN "CLOSED"
    ELSE IF chunks = <<>> THEN "READY"
    ELSE "STREAMING"

LifecycleRank(l) == CASE l = "CONNECTING" -> 0 [] l = "READY" -> 1 [] l = "STREAMING" -> 2 [] l = "CLOSED" -> 3

\* C13: the lifecycle only moves forward along CONNECTING, READY, STREAMING,
\* CLOSED; a setup failure ends in CLOSED; CLOSED is absorbing: once the
\* session has closed (after done, after a setup error or after disconnect) no
\* step processes a message, calls the engine or emits an event.
C13_ClosedAbsorbing ==
    [][/\ LifecycleRank(Lifecycle') >= LifecycleRank(Lifecycle)
       /\ exit' = "setup_error" => Lifecycle' = "CLOSED"
       /\ Lifecycle = "CLOSED" =>
            /\ Lifecycle' = "CLOSED"
            /\ trace' = trace
            /\ nRecv' = nRecv /\ chunks' = chunks]_vars

----------------------------------------------------------------------------
\* A session whose engine is streaming-capable, from stream_init on.
StreamingSession == streaming_supported /\ pc # "accept"

\* C14: in a streaming-mode session the engine calls obey the protocol: the
\* first call is stream_init and there is no other stream_init; every later
\* call is a stream_feed or a stream_finalize; a stream_finalize is the last
\* call of the session (so there is at most one, it comes after the last
\* stream_feed, and no stream_feed follows it).
C14_EngineProtocol ==
    StreamingSession =>
        /\ Calls # <<>>
        /\ Calls[1].op = "stream_init"
        /\ \A i \in 2..Len(Calls) : Calls[i].op \in {"stream_feed", "stream_finalize"}
        /\ \A i \in 1..Len(Calls) : Calls[i].op = "stream_finalize" => i = Len(Calls)

\* A streaming session that fed two chunks and was then stopped.
C14_Witness ==
    /\ StreamingSession
    /\ Stopped
    /\ Len(CallsTo("stream_feed")) = 2
    /\ Len(CallsTo("stream_finalize")) = 1
    /\ Calls[Len(Calls)].op = "stream_finalize"

----------------------------------------------------------------------------
\* One scripted session on the streaming-capable engine: the client sends
\* start, three audio chunks and stop, in this order; the file system and the
\* recognizer's answers stay free.
ScenarioKinds == <<"start", "chunk", "chunk", "chunk", "stop">>

InitScenario ==
    /\ query \in {q \in Queries : lower(q.engine) = "vosk"}
    /\ pc = "accept"
    /\ exit = ""
    /\ streaming_supported = FALSE
    /\ recognizer = FALSE
    /\ MODEL_CACHE = {}
    /\ buffer = <<>>
    /\ chunks = <<>>
    /\ nRecv = 0
    /\ last = NoMsg
    /\ disconnected = FALSE
    /\ closes = 0
    /\ trace = <<>>
    /\ budget = Len(ScenarioKinds)
    /\ OthersIdle

\* The message just received is the one the script has at this position.
Scripted ==
    LET kind == ScenarioKinds[nRecv'] IN
    IF kind = "chunk" THEN last'.kind = "bytes" ELSE IsControl(last', kind)

NextScenario ==
    \/ Accept
    \/ OnStart /\ Scripted
    \/ OnChunkStreaming /\ Scripted
    \/ OnStopStreaming /\ Scripted

SpecScenario == InitScenario /\ [][NextScenario]_vars

\* The recognizer answered the three chunks with interim, interim, final, and
\* stream_finalize had nothing left to flush (no result, or one without text).
ScenarioAnswers ==
    LET f == CallsTo("stream_feed")
        z == CallsTo("stream_finalize")
    IN  /\ Len(f) = 3
        /\ \A i \in 1..3 : ~f[i].raised /\ f[i].some
        /\ ~f[1].final /\ ~f[2].final /\ f[3].final
        /\ Len(z) = 1
        /\ ~z[1].raised
        /\ ~z[1].some \/ z[1].text = ""

\* C15: for start, chunk 1, chunk 2, chunk 3, stop on the streaming-capable
\* engine, with stream_feed answering interim, interim, final and
\* stream_finalize having nothing left to flush, the events emitted are exactly
\* ack, partial, partial, final, done, the final carrying the text of the third
\* feed.
C15_ScenarioEvents ==
    (Stopped /\ ScenarioAnswers) =>
        /\ Types(Events) = <<"ack", "partial", "partial", "final", "done">>
        /\ Events[4].text = CallsTo("stream_feed")[3].text

\* The scripted session has run to its end with these answers, on audio.
C15_Witness ==
    /\ Stopped
    /\ ScenarioAnswers
    /\ nRecv = 5
    /\ chunks = << <<1, 1, 0, 0>>, <<0>>, <<1, 1, 0, 0>> >>
    /\ closes = 1

----------------------------------------------------------------------------
\* Concurrent sessions.
\*
\* Every connection runs the coroutine `stream` (stream.py:51-52, async def) on
\* the one event loop of the process.  A coroutine gives the loop away only at
\* an await: ws.accept() (71), ws.receive() (97), and the sends and the close,
\* which are followed by no code that touches shared state.  _get_engine,
\* _get_model, stream_init, stream_feed, stream_finalize and transcribe are
\* plain calls (74, 86, 118, 134, 160): the coroutine keeps the loop while they
\* run.  The repository starts no thread and uses no executor.
\*
\* The recognizers answer deterministically here: the text of a result stands
\* for the audio it was computed from, so that an event shows whose audio the
\* engine has heard.  Setup failures are left to the single-session
\* specification.

Sessions == {"A", "B"}

\* Messages the client of one session sends at most.
LoopMsgs == 2

LoopQueries == {q \in Queries : q.vad_frame_ms = 10 /\ lower(q.engine) \in {"vosk", "whispercpp"}}
LoopInputs == {BytesMsg(c) : c \in Chunks \ {<<>>}} \cup {TextMsg(StopText)}

Ev(type, audio) == [type |-> type, audio |-> audio]

\* Preemptive threads: a handler may be interrupted anywhere.
yields_anywhere(at) == TRUE

\* The positions at which a coroutine is suspended at an await (stream.py:71,
\* 97) or has returned.
yields(at) == at \in {"accept", "receive", "closed"}

\* Session s may run: every other coroutine is suspended.
OnLoop(s) == \A t \in Sessions \ {s} : yields(sess[t].at)

\* One engine object shared by all connections.
new_engine_singleton(es) == 1

\* stream.py:27, 44: _get_engine constructs a new engine object per call.
new_engine(es) == Len(es) + 1

\* The handler is not run on its own.
HandlerIdle ==
    /\ query \in {q \in Queries : q.engine = "vosk"}
    /\ pc = "return"
    /\ exit = ""
    /\ streaming_supported = FALSE
    /\ recognizer = FALSE
    /\ MODEL_CACHE = {}
    /\ buffer = <<>>
    /\ chunks = <<>>
    /\ nRecv = 0
    /\ last = NoMsg
    /\ disconnected = FALSE
    /\ closes = 0
    /\ trace = <<>>
    /\ budget = 0

InitLoop ==
    /\ HandlerIdle
    /\ FnIdle
    /\ sess \in [Sessions -> {[query |-> q, at |-> "accept", inbox |-> <<>>, sent |-> 0, rx |-> <<>>,
                               buffer |-> <<>>, stt |-> 0, m |-> 0, events |-> <<>>] : q \in LoopQueries}]
    /\ engines = <<>>
    /\ model_cache = [path \in {VOSK_MODEL_PATH} |-> 0]
    /\ models = <<>>

\* The client of s sends a message; it waits at the socket until the handler
\* of s receives it.
Deliver(s) ==
    /\ sess[s].sent < LoopMsgs
    /\ sess[s].at # "closed"
    /\ \E m \in LoopInputs :
        sess' = [sess EXCEPT ![s].inbox = Append(@, m), ![s].sent = @ + 1]
    /\ UNCHANGED <<handler, fncall, engines, model_cache, models>>

\* stream.py:71-74: ws.accept() returns, the handler enters _get_engine.
Accepted(s) ==
    /\ sess[s].at = "accept"
    /\ OnLoop(s)
    /\ sess' = [sess EXCEPT ![s].at = IF lower(sess[s].query.engine) = "vosk" THEN "resolve" ELSE "init"]
    /\ UNCHANGED <<handler, fncall, engines, model_cache, models>>

\* vosk_engine.py:17: m = _MODEL_CACHE.get(model_path)
GetModelLookup(s) ==
    /\ sess[s].at = "resolve"
    /\ OnLoop(s)
    /\ sess' = [sess EXCEPT ![s].m = model_cache[VOSK_MODEL_PATH],
                            ![s].at = IF model_cache[VOSK_MODEL_PATH] = 0 THEN "load" ELSE "init"]
    /\ UNCHANGED <<handler, fncall, engines, model_cache, models>>

\* vosk_engine.py:18-20: m = Model(model_path); _MODEL_CACHE[model_path] = m
GetModelLoad(s) ==
    /\ sess[s].at = "load"
    /\ OnLoop(s)
    /\ models' = Append(models, VOSK_MODEL_PATH)
    /\ model_cache' = [model_cache EXCEPT ![VOSK_MODEL_PATH] = Len(models) + 1]
    /\ sess' = [sess EXCEPT ![s].m = Len(models) + 1, ![s].at = "init"]
    /\ UNCHANGED <<handler, fncall, engines>>

\* stream.py:27-31, 44-48, 82-93: the engine object is constructed
\* (vosk_engine.py:51-56: self.model, self._recognizer), stream_init makes the
\* recognizer (vosk_engine.py:114-118), the buffer is created, and the handler
\* waits in ws.receive().
EngineInit(s) ==
    /\ sess[s].at = "init"
    /\ OnLoop(s)
    /\ LET id == new_engine(engines)
           e == [cls |-> IF lower(sess[s].query.engine) = "vosk" THEN "VoskEngine" ELSE "WhisperCppEngine",
                 model |-> sess[s].m, fed |-> <<>>]
       IN  /\ engines' = IF id \in 1..Len(engines) THEN [engines EXCEPT ![id] = e] ELSE Append(engines, e)
           /\ sess' = [sess EXCEPT ![s].stt = id, ![s].buffer = <<>>, ![s].at = "receive"]
    /\ UNCHANGED <<handler, fncall, model_cache, models>>

\* stream.py:97-180: ws.receive() returns the next message of s.  A chunk of a
\* batch session is buffered (178-180) and a stop on an empty buffer finishes
\* the session (130, 146-148); everything else enters an engine call:
\* stream_feed (160), stream_finalize (118) or the flush with transcribe (134).
Receive(s) ==
    /\ sess[s].at = "receive"
    /\ sess[s].inbox # <<>>
    /\ OnLoop(s)
    /\ LET m == Head(sess[s].inbox)
           streaming == StreamingSupported(engines[sess[s].stt].cls)
       IN  sess' = [sess EXCEPT
                ![s].inbox = Tail(@),
                ![s].rx = Append(@, m),
                ![s].buffer = IF m.kind = "bytes" /\ ~streaming THEN buffer_extend(@, m.bytes) ELSE @,
                ![s].events = IF m.kind = "text" /\ ~streaming /\ sess[s].buffer = <<>> THEN Append(@, Ev("done", <<>>)) ELSE @,
                ![s].at = IF streaming THEN "engine"
                          ELSE IF m.kind = "bytes" THEN "receive"
                          ELSE IF sess[s].buffer = <<>> THEN "closed" ELSE "engine"]
    /\ UNCHANGED <<handler, fncall, engines, model_cache, models>>

\* The engine call of s returns and the handler sends what it yields
\* (stream.py:118-119, 132-140, 161-171), then waits in ws.receive() again or,
\* after stop, sends done, closes and returns (146-148).
EngineReturn(s) ==
    /\ sess[s].at = "engine"
    /\ OnLoop(s)
    /\ LET m == sess[s].rx[Len(sess[s].rx)]
           id == sess[s].stt
           streaming == StreamingSupported(engines[id].cls)
           heard == engines[id].fed \o m.bytes
           segs == Segments(sess[s].query, sess[s].buffer)
       IN  IF m.kind = "bytes" THEN
                /\ engines' = [engines EXCEPT ![id].fed = heard]
                /\ sess' = [sess EXCEPT ![s].events = Append(@, Ev("partial", heard)), ![s].at = "receive"]
           ELSE IF streaming THEN
                /\ sess' = [sess EXCEPT
                        ![s].events = @ \o (IF engines[id].fed # <<>> THEN <<Ev("final", engines[id].fed)>> ELSE <<>>) \o <<Ev("done", <<>>)>>,
                        ![s].at = "closed"]
                /\ UNCHANGED engines
           ELSE
                /\ sess' = [sess EXCEPT
                        ![s].events = @ \o [i \in 1..Len(segs) |-> Ev("final", segs[i])] \o <<Ev("done", <<>>)>>,
                        ![s].buffer = buffer_clear(@, <<>>),
                        ![s].at = "closed"]
                /\ UNCHANGED engines
    /\ UNCHANGED <<handler, fncall, model_cache, models>>

NextLoop ==
    \/ \E s \in Sessions : Deliver(s)
    \/ \E s \in Sessions : Accepted(s)
    \/ \E s \in Sessions : GetModelLookup(s)
    \/ \E s \in Sessions : GetModelLoad(s)
    \/ \E s \in Sessions : EngineInit(s)
    \/ \E s \in Sessions : Receive(s)
    \/ \E s \in Sessions : EngineReturn(s)

SpecLoop == InitLoop /\ [][NextLoop]_vars

----------------------------------------------------------------------------
\* C16: a blocking engine call made by one session does not block unrelated
\* sessions: while session a is inside an engine call, a session b that waits
\* in ws.receive() with a message of its own at hand can receive and process
\* it.
C16_NoCrossSessionBlocking ==
    \A a \in Sessions : \A b \in Sessions \ {a} :
        (sess[a].at = "engine" /\ sess[b].at = "receive" /\ sess[b].inbox # <<>>) => ENABLED Receive(b)

----------------------------------------------------------------------------
\* C17: the process-wide model registry loads each resolved model path at most
\* once, whatever the interleaving of the sessions that resolve it: no path is
\* constructed twice, a registry entry holds the model constructed for its
\* path and is never replaced once inserted, and every engine for the path
\* holds the registry's model object.
C17_ModelLoadedOnce ==
    /\ [](/\ \A i \in 1..Len(models) : \A j \in 1..Len(models) : models[i] = models[j] => i = j
          /\ \A path \in DOMAIN model_cache : model_cache[path] # 0 => models[model_cache[path]] = path
          /\ \A i \in 1..Len(engines) : engines[i].cls = "VoskEngine" =>
                engines[i].model # 0 /\ engines[i].model = model_cache[VOSK_MODEL_PATH])
    /\ [][\A path \in DOMAIN model_cache : model_cache[path] # 0 => model_cache'[path] = model_cache[path]]_vars

\* Two connected sessions resolved the same model path; both engines exist and
\* hold the one model that was constructed.
C17_Witness ==
    /\ \A s \in Sessions : lower(sess[s].query.engine) = "vosk" /\ sess[s].stt # 0
    /\ Len(engines) = 2
    /\ engines[1].model = engines[2].model
    /\ Len(models) = 1

----------------------------------------------------------------------------
\* The messages of s whose handling is complete.
Handled(s) == IF sess[s].at = "engine" THEN SubSeq(sess[s].rx, 1, Len(sess[s].rx) - 1) ELSE sess[s].rx

\* The audio chunks among the messages msgs, in order.
ChunksOf(msgs) == LET b == SelectSeq(msgs, LAMBDA m : m.kind = "bytes") IN [i \in 1..Len(b) |-> b[i].bytes]

\* The events a session with query q emits for the messages msgs, read from
\* these messages alone.
OwnEvents(q, msgs) ==
    LET cs == ChunksOf(msgs)
        stopped == \E i \in 1..Len(msgs) : msgs[i].kind = "text"
        segs == Segments(q, Concat(cs))
    IN  IF lower(q.engine) = "vosk" THEN
            [i \in 1..Len(cs) |-> Ev("partial", Concat(SubSeq(cs, 1, i)))]
            \o (IF stopped /\ Concat(cs) # <<>> THEN <<Ev("final", Concat(cs))>> ELSE <<>>)
            \o (IF stopped THEN <<Ev("done", <<>>)>> ELSE <<>>)
        ELSE IF stopped THEN [i \in 1..Len(segs) |-> Ev("final", segs[i])] \o <<Ev("done", <<>>)>>
        ELSE <<>>

\* C18: each connection has its own engine instance and its own accumulation
\* buffer: under every interleaving of two sessions no two sessions hold the
\* same engine object, the recognizer of a session has heard exactly that
\* session's chunks, the buffer of a batch session holds exactly that
\* session's chunks (nothing after the flush), and the events of a session
\* are those its own messages determine.
C18_SessionIsolation ==
    \A s \in Sessions : sess[s].stt # 0 =>
        /\ \A t \in Sessions \ {s} : sess[t].stt # sess[s].stt
        /\ IF engines[sess[s].stt].cls = "VoskEngine"
           THEN engines[sess[s].stt].fed = Concat(ChunksOf(Handled(s))) /\ sess[s].buffer = <<>>
           ELSE engines[sess[s].stt].fed = <<>>
                /\ sess[s].buffer = IF sess[s].at = "closed" THEN <<>> ELSE Concat(ChunksOf(sess[s].rx))
        /\ sess[s].events = OwnEvents(sess[s].query, Handled(s))

\* Both sessions have had audio handled while the other was running too, a
\* streaming one and a batch one, on different audio.
C18_Witness ==
    /\ lower(sess["A"].query.engine) = "vosk" /\ lower(sess["B"].query.engine) = "whispercpp"
    /\ sess["A"].stt # 0 /\ sess["B"].stt # 0
    /\ engines[sess["A"].stt].fed = <<1, 1, 0, 0>>
    /\ sess["B"].buffer = <<0>>
    /\ sess["A"].events # <<>>

----------------------------------------------------------------------------
\* C19: in a batch-mode session the accumulation buffer is empty after the
\* flush that stop triggers, whether slicing, segmentation and every
\* transcription succeeded or one of them failed.
C19_BufferEmptyAfterFlush ==
    (BatchSession /\ Stopped) => buffer = <<>>

\* A stop on buffered audio whose flush failed: an error event was sent for
\* the stop message, and the buffer is empty.
C19_Witness ==
    /\ BatchSession
    /\ Stopped
    /\ Audio # <<>>
    /\ \E i \in 1..Len(SendsOf(nRecv)) : SendsOf(nRecv)[i].op = "error"
    /\ buffer = <<>>

----------------------------------------------------------------------------
\* _normalize_frame_ms called on its own, on every duration of a range.

\* Largest absolute value of a requested frame duration, in ms.
MaxFrameMs == 60

InitNormalize ==
    /\ HandlerIdle
    /\ LoopIdle
    /\ fn_arg \in -MaxFrameMs..MaxFrameMs
    /\ fn_ret = 0
    /\ returned = FALSE

\* webrtc_vad.py:31-37
NormalizeFrameMs ==
    /\ ~returned
    /\ fn_ret' = _normalize_frame_ms(fn_arg)
    /\ returned' = TRUE
    /\ UNCHANGED <<fn_arg, handler, loop>>

NextNormalize == NormalizeFrameMs

SpecNormalize == InitNormalize /\ [][NextNormalize]_vars

----------------------------------------------------------------------------
\* frame_generator called on its own and run to its end, on every buffer of a
\* range, for frame lengths of 1, 2, 3, 4 and 6 bytes.

\* Largest length of a buffer handed to the slicer, in bytes.
MaxPcm == 5

PcmBuffers == UNION {[1..n -> {0, 1}] : n \in 0..MaxPcm}

InitSlice ==
    /\ HandlerIdle
    /\ LoopIdle
    /\ fn_arg \in [frame_duration_ms : {10, 20, 25}, pcm16 : PcmBuffers, sample_rate : {50, 100}]
    /\ fn_ret = <<>>
    /\ returned = FALSE

\* webrtc_vad.py:40-63, list(frame_generator(...)) as in stream.py:132
SliceFrames ==
    /\ ~returned
    /\ fn_ret' = frame_generator(fn_arg.frame_duration_ms, fn_arg.pcm16, fn_arg.sample_rate)
    /\ returned' = TRUE
    /\ UNCHANGED <<fn_arg, handler, loop>>

NextSlice == SliceFrames

SpecSlice == InitSlice /\ [][NextSlice]_vars

\* C21: for every input buffer and frame byte length L the slicer yields
\* exactly floor(len(input) / L) frames, each of exactly L bytes, frame i
\* (counted from 0) being the input bytes [i*L, (i+1)*L), in input order, with
\* non-decreasing timestamps starting at 0; the bytes yielded are
\* floor(len(input) / L) * L in total, so a trailing remainder shorter than L
\* is dropped.
C21_SlicerFrames ==
    returned =>
        LET L == bytes_per_frame(fn_arg.frame_duration_ms, fn_arg.sample_rate)
            n == Len(fn_arg.pcm16) \div L
        IN  /\ Len(fn_ret) = n
            /\ \A i \in 1..n :
                /\ Len(fn_ret[i].bytes) = L
                /\ fn_ret[i].bytes = SubSeq(fn_arg.pcm16, (i - 1) * L + 1, i * L)
            /\ n > 0 => fn_ret[1].timestamp = 0
            /\ \A i \in 1..(n - 1) : fn_ret[i].timestamp <= fn_ret[i + 1].timestamp
            /\ _emit_segment(fn_ret) = SubSeq(fn_arg.pcm16, 1, n * L)

\* Five bytes cut into two frames of two bytes; the fifth byte is dropped.
C21_Witness ==
    /\ returned
    /\ Len(fn_arg.pcm16) = 5
    /\ Len(fn_ret) = 2
    /\ Len(fn_ret[1].bytes) = 2
    /\ fn_ret[2].timestamp > 0

----------------------------------------------------------------------------
\* vad_collector run frame by frame, on every classification of the frames of
\* a range of inputs, for every ring-buffer capacity of a range.  The frames
\* are 10 ms at 100 Hz (2 bytes); the padding duration sets the capacity.
\* fn_ret holds the generator's locals (st) and the number of frames consumed.

\* Largest number of frames handed to the segmenter.
MaxFrames == 5

\* Largest ring-buffer capacity of the inputs taken with every classification.
MaxCapacity == 3

\* A ring-buffer capacity for which 0.9 of the capacity is less than the
\* capacity minus one; its inputs are runs of speech, silence, speech.
LongCapacity == 11

\* The frames frame_generator cuts out of audio whose i-th frame is speech
\* exactly when c[i].
FramesOf(c) == frame_generator(10, Concat([i \in 1..Len(c) |-> IF c[i] THEN <<1, 1>> ELSE <<0, 0>>]), 100)

\* a speech frames, then b silent ones, then d speech frames.
Runs(a, b, d) == [i \in 1..(a + b + d) |-> i <= a \/ i > a + b]

LongInputs ==
    {FramesOf(Runs(a, b, d)) : <<a, b, d>> \in {t \in (0..(LongCapacity + 2)) \X (0..(LongCapacity + 2)) \X (0..(LongCapacity + 2)) :
                                                  t[1] + t[2] + t[3] <= LongCapacity + 2}}

VadArgs ==
    [sample_rate : {100}, frame_duration_ms : {10}, aggressiveness : {2},
     padding_duration_ms : {10 * k : k \in 0..MaxCapacity},
     frames : {FramesOf(c) : c \in UNION {[1..n -> BOOLEAN] : n \in 0..MaxFrames}}]
    \cup
    [sample_rate : {100}, frame_duration_ms : {10}, aggressiveness : {2},
     padding_duration_ms : {10 * LongCapacity},
     frames : LongInputs]

InitVad ==
    /\ HandlerIdle
    /\ LoopIdle
    /\ fn_arg \in VadArgs
    /\ fn_ret = [st |-> vad_init, n |-> 0]
    /\ returned = FALSE

\* ring_buffer.maxlen, webrtc_vad.py:85-86
Capacity == num_padding_frames(fn_arg.padding_duration_ms, fn_arg.frame_duration_ms)

\* webrtc_vad.py:96-119: one pass of the for loop.
VadFrame ==
    /\ ~returned
    /\ fn_ret.n < Len(fn_arg.frames)
    /\ fn_ret' = [st |-> vad_step(fn_ret.st, fn_arg.frames[fn_ret.n + 1], Capacity), n |-> fn_ret.n + 1]
    /\ UNCHANGED <<fn_arg, returned, handler, loop>>

\* webrtc_vad.py:121-123: the input is exhausted.
VadEnd ==
    /\ ~returned
    /\ fn_ret.n = Len(fn_arg.frames)
    /\ fn_ret' = [fn_ret EXCEPT !.st = vad_flush(fn_ret.st)]
    /\ returned' = TRUE
    /\ UNCHANGED <<fn_arg, handler, loop>>

NextVad ==
    \/ VadFrame
    \/ VadEnd

SpecVad == InitVad /\ [][NextVad]_vars

\* C22: for every ring-buffer capacity and every input length, an input whose
\* frames are all classified silent yields zero segments (at no point of the
\* run, and none at its end).
C22_SilenceYieldsNothing ==
    (\A i \in 1..Len(fn_arg.frames) : ~is_speech(fn_arg.frames[i])) => fn_ret.st.out = <<>>

\* Four silent frames went through a ring buffer of capacity 2.
C22_Witness ==
    /\ returned
    /\ Len(fn_arg.frames) = 4
    /\ \A i \in 1..Len(fn_arg.frames) : ~is_speech(fn_arg.frames[i])
    /\ Capacity = 2
    /\ fn_ret.n = 4
    /\ fn_ret.st.out = <<>>

----------------------------------------------------------------------------
\* C23: for every ring-buffer capacity, an input whose frames are all
\* classified speech and whose length exceeds the capacity yields exactly one
\* segment, the concatenation of all input frames: no onset frame is lost, and
\* the segment is yielded by the end-of-input flush, not before.
C23_SpeechYieldsOneSegment ==
    ((\A i \in 1..Len(fn_arg.frames) : is_speech(fn_arg.frames[i])) /\ Len(fn_arg.frames) > Capacity) =>
        /\ returned => fn_ret.st.out = <<_emit_segment(fn_arg.frames)>>
        /\ ~returned => fn_ret.st.out = <<>>

\* Twelve speech frames went through a ring buffer of capacity 11.
C23_Witness ==
    /\ returned
    /\ Len(fn_arg.frames) = 12
    /\ \A i \in 1..Len(fn_arg.frames) : is_speech(fn_arg.frames[i])
    /\ Capacity = 11
    /\ Len(fn_ret.st.out) = 1
    /\ Len(fn_ret.st.out[1]) = 24

----------------------------------------------------------------------------
\* The frames underlying the segments yielded so far, in emission order.
EmittedFrames == Concat(fn_ret.st.segments)

\* The position of frame f in the input: frame_generator stamps the frame at
\* position p with the time of its first byte, (p - 1) * 2 byte times.
PositionOf(f) == f.timestamp \div 2 + 1

\* C24: for every input frame sequence and classification, the frames
\* underlying all emitted segments, concatenated in emission order, form an
\* order-preserving subsequence of the input frames in which no input frame
\* occurs twice: each is an input frame, and their input positions strictly
\* increase; every segment is the concatenation of its frames' bytes.
C24_SegmentsAreSubsequence ==
    /\ Len(fn_ret.st.out) = Len(fn_ret.st.segments)
    /\ \A k \in 1..Len(fn_ret.st.out) : fn_ret.st.out[k] = _emit_segment(fn_ret.st.segments[k])
    /\ \A i \in 1..Len(EmittedFrames) :
        /\ PositionOf(EmittedFrames[i]) \in 1..fn_ret.n
        /\ fn_arg.frames[PositionOf(EmittedFrames[i])] = EmittedFrames[i]
    /\ \A i \in 1..(Len(EmittedFrames) - 1) : PositionOf(EmittedFrames[i]) < PositionOf(EmittedFrames[i + 1])

\* Two segments were yielded, and some input frame is in neither.
C24_Witness ==
    /\ returned
    /\ Len(fn_ret.st.segments) = 2
    /\ Len(EmittedFrames) < Len(fn_arg.frames)
    /\ Len(fn_ret.st.segments[1]) = 2

----------------------------------------------------------------------------
\* The ring buffer after the frame consumed by the step has been pushed.
Pushed ==
    LET frame == fn_arg.frames[fn_ret.n + 1] IN
    deque_append(fn_ret.st.ring_buffer, [frame |-> frame, speech |-> is_speech(frame)], Capacity)

FramesIn(ring) == [i \in 1..Len(ring) |-> ring[i].frame]

\* C25: in IDLE each frame is pushed into the ring buffer, evicting the
\* oldest when full, and the segmenter switches to ACTIVE exactly when the
\* speech-classified frames are more than 0.9 of the frames currently in the
\* ring buffer, also while the ring buffer is not yet full; on that transition
\* the in-progress segment is seeded with all frames of the ring buffer, in
\* order, and the ring buffer is cleared.
C25_OnsetRule ==
    [][(~fn_ret.st.triggered /\ fn_ret'.n = fn_ret.n + 1) =>
            /\ fn_ret'.st.triggered <=> 10 * num_voiced(Pushed) > 9 * Len(Pushed)
            /\ fn_ret'.st.triggered =>
                    /\ fn_ret'.st.voiced_frames = FramesIn(Pushed)
                    /\ fn_ret'.st.ring_buffer = <<>>
            /\ ~fn_ret'.st.triggered =>
                    /\ fn_ret'.st.voiced_frames = <<>>
                    /\ fn_ret'.st.ring_buffer = Pushed]_vars

----------------------------------------------------------------------------
\* C26: in ACTIVE every incoming frame is appended to the in-progress segment
\* and pushed into the ring buffer, and the segmenter switches back to IDLE
\* exactly when the silence-classified frames are more than 0.9 of the frames
\* currently in the ring buffer; on that transition the in-progress segment is
\* emitted as one concatenated byte block and both the segment and the ring
\* buffer are cleared.
C26_OffsetRule ==
    [][(fn_ret.st.triggered /\ fn_ret'.n = fn_ret.n + 1) =>
            LET segment == Append(fn_ret.st.voiced_frames, fn_arg.frames[fn_ret'.n]) IN
            /\ ~fn_ret'.st.triggered <=> 10 * num_unvoiced(Pushed) > 9 * Len(Pushed)
            /\ ~fn_ret'.st.triggered =>
                    /\ fn_ret'.st.out = Append(fn_ret.st.out, _emit_segment(segment))
                    /\ fn_ret'.st.voiced_frames = <<>>
                    /\ fn_ret'.st.ring_buffer = <<>>
            /\ fn_ret'.st.triggered =>
                    /\ fn_ret'.st.out = fn_ret.st.out
                    /\ fn_ret'.st.voiced_frames = segment
                    /\ fn_ret'.st.ring_buffer = Pushed]_vars

----------------------------------------------------------------------------
\* C27: if the input ends while ACTIVE with a non-empty in-progress segment,
\* that segment is emitted as the last segment, whatever the silence ratio of
\* the ring buffer; if the input ends while IDLE, nothing further is emitted
\* and the frames still held in the ring buffer are discarded.
C27_EndOfInput ==
    [][(~returned /\ returned') =>
            /\ fn_ret.n = Len(fn_arg.frames)
            /\ IF fn_ret.st.triggered /\ fn_ret.st.voiced_frames # <<>>
               THEN fn_ret'.st.out = Append(fn_ret.st.out, _emit_segment(fn_ret.st.voiced_frames))
               ELSE fn_ret'.st.out = fn_ret.st.out
            /\ ~fn_ret.st.triggered => fn_ret.st.voiced_frames = <<>>]_vars

\* The input ended while ACTIVE with silent frames in the ring buffer, and
\* the whole input is the one segment.
C27_Witness ==
    /\ returned
    /\ fn_ret.st.triggered
    /\ num_unvoiced(fn_ret.st.ring_buffer) = 2
    /\ fn_ret.st.out = <<_emit_segment(fn_arg.frames)>>

----------------------------------------------------------------------------
\* The ring-buffer capacity computed on its own (webrtc_vad.py:83-85), for
\* every padding duration of a range and requested frame durations that
\* normalize to 10, 20 and 30 ms.

\* Largest padding duration, in ms.
MaxPaddingMs == 70

InitPadding ==
    /\ HandlerIdle
    /\ LoopIdle
    /\ fn_arg \in [padding_duration_ms : 0..MaxPaddingMs, frame_duration_ms : {10, 15, 30}]
    /\ fn_ret = 0
    /\ returned = FALSE

\* webrtc_vad.py:83-85
NumPaddingFrames ==
    /\ ~returned
    /\ fn_ret' = num_padding_frames(fn_arg.padding_duration_ms, fn_arg.frame_duration_ms)
    /\ returned' = TRUE
    /\ UNCHANGED <<fn_arg, handler, loop>>

NextPadding == NumPaddingFrames

SpecPadding == InitPadding /\ [][NextPadding]_vars

\* round(x / y) for x >= 0 and y > 0: the nearest integer, a tie going to the
\* even one.
round_div(x, y) ==
    LET q == x \div y
        r == x % y
    IN  IF 2 * r < y THEN q
        ELSE IF 2 * r > y THEN q + 1
        ELSE IF q % 2 = 0 THEN q ELSE q + 1

\* C28: for every padding duration and requested frame duration the
\* ring-buffer capacity equals max(1, round(padding_ms / normalized_frame_ms)),
\* the quotient rounded to the nearest integer, not truncated.
C28_CapacityRounded ==
    returned =>
        LET q == round_div(fn_arg.padding_duration_ms, _normalize_frame_ms(fn_arg.frame_duration_ms)) IN
        fn_ret = IF q > 1 THEN q ELSE 1

----------------------------------------------------------------------------
\* The frame byte length computed on its own (webrtc_vad.py:50-52), at the
\* sample rates the endpoint accepts, near both ends of their range.

\* sample_rate: Query(ge=8000, le=48000)
MinSampleRate == 8000
MaxSampleRate == 48000

\* Number of sample rates taken above the smallest and below the largest.
RateSpan == 30

InitFrameBytes ==
    /\ HandlerIdle
    /\ LoopIdle
    /\ fn_arg \in [sample_rate : (MinSampleRate..(MinSampleRate + RateSpan)) \cup ((MaxSampleRate - RateSpan)..MaxSampleRate),
                    frame_duration_ms : {10, 15, 30}]
    /\ fn_ret = 0
    /\ returned = FALSE

\* webrtc_vad.py:50-52
BytesPerFrame ==
    /\ ~returned
    /\ fn_ret' = bytes_per_frame(fn_arg.frame_duration_ms, fn_arg.sample_rate)
    /\ returned' = TRUE
    /\ UNCHANGED <<fn_arg, handler, loop>>

NextFrameBytes == BytesPerFrame

SpecFrameBytes == InitFrameBytes /\ [][NextFrameBytes]_vars

\* C29: for every sample rate in 8000..48000 and every requested frame
\* duration the frame byte length used by the slicer equals
\* sample_rate * (normalized_ms / 1000) * 2; it is computed once per slicer
\* run, so it is the same for every frame.
C29_FrameByteLength ==
    returned => fn_ret * 1000 = fn_arg.sample_rate * _normalize_frame_ms(fn_arg.frame_duration_ms) * 2

----------------------------------------------------------------------------
\* C30: the segmenter's ring buffer has a capacity fixed at construction: in
\* every reachable state of the segmenter the ring buffer holds at most that
\* many frames, and no step changes the capacity.
C30_RingBounded ==
    /\ [](Len(fn_ret.st.ring_buffer) <= Capacity)
    /\ [][Capacity' = Capacity]_vars

\* A full ring buffer of capacity 2 has taken a further frame while IDLE.
C30_Witness ==
    /\ ~fn_ret.st.triggered
    /\ Capacity = 2
    /\ Len(fn_ret.st.ring_buffer) = 2
    /\ fn_ret.n = 4
    /\ fn_ret.st.out = <<>>

\* ---------------------------------------------------------------------------
\* Stop always ends the session with done (stream.py:113-148)

\* The positions of the done events in the history.
DonePositions == {p \in 1..Len(trace) : trace[p].k = "send" /\ trace[p].op = "done"}

\* C31: once a stop message is processed in an open session, done is emitted
\* exactly once, it is the last event of the session, and the connection is then
\* closed (one ws.close, the handler has returned), also when stream_finalize
\* fails or when the batch flush fails: the error event of the stop message
\* precedes done.  The handling of stop has no await on the engine, so in the
\* model the stop is processed in one step and "eventually" is "in the state
\* the step leaves": a state whose last message is a stop is a stopped one.
\* No done is ever sent without a stop.
C31_StopEndsWithDone ==
    /\ IsControl(last, "stop") => Stopped
    /\ DonePositions # {} => Stopped
    /\ Stopped =>
        /\ IsControl(last, "stop")
        /\ DonePositions = {Len(trace)}
        /\ trace[Len(trace)] = Send("done", nRecv, "")
        /\ \A p \in 1..Len(trace) : (trace[p].k = "send" /\ trace[p].op = "error" /\ trace[p].msg = nRecv) => p < Len(trace)
        /\ closes = 1
        /\ Lifecycle = "CLOSED"
        /\ ~ENABLED Next

\* A batch stop whose flush failed, and a streaming stop whose finalize failed,
\* are both followed by done: here the batch one.
C31_Witness ==
    /\ Stopped
    /\ ~streaming_supported
    /\ \E p \in 1..Len(trace) : trace[p].k = "send" /\ trace[p].op = "error" /\ trace[p].msg = nRecv

\* ---------------------------------------------------------------------------
\* What the batch flush reads (stream.py:92-93, 128-131, 178-180)

\* The buffers handed to the slicer, in call order.
SlicedBuffers == Args(CallsTo("frame_generator"))

\* C32: in a batch session the accumulation buffer holds, while the loop runs,
\* the concatenation in arrival order of every binary chunk received since
\* the connection opened, whether or not a start came first; the step that
\* handles a text frame other than the stop leaves the buffer as it is; and
\* what the stop hands to the slicer is that concatenation, once: nothing when
\* it is empty.
C32_BufferIsAllAudio ==
    /\ [](BatchSession =>
            /\ pc = "receive" => buffer = Audio
            /\ Stopped => SlicedBuffers = (IF Audio # <<>> THEN <<Audio>> ELSE <<>>)
            /\ ~Stopped => SlicedBuffers = <<>>)
    /\ [][(~streaming_supported /\ nRecv' = nRecv + 1 /\ last'.kind = "text" /\ ~IsControl(last', "stop")) =>
            buffer' = buffer /\ chunks' = chunks]_vars

\* A stop flushed two different chunks, one received before the start and one
\* after it.
C32_Witness ==
    /\ Stopped
    /\ ~streaming_supported
    /\ chunks = << <<1, 1, 0, 0>>, <<0>> >>
    /\ SlicedBuffers = << <<1, 1, 0, 0, 0>> >>
    /\ \E p \in 1..Len(trace) : trace[p].op = "ack" /\ trace[p].msg = 2

\* ---------------------------------------------------------------------------
\* The two paths are exclusive (stream.py:81-82, 113-180)

\* The operations of the batch path and those of the streaming path.
BatchOps == {"frame_generator", "vad_collector", "transcribe"}
StreamingOps == {"stream_feed", "stream_finalize"}

\* The operations the session has invoked so far.
InvokedOps == {trace[p].op : p \in {q \in 1..Len(trace) : trace[q].k = "call"}}

\* C33: the capability mode is fixed at setup and never changes afterwards; in
\* streaming mode the accumulation buffer stays empty and the slicer, the
\* segmenter and transcribe are never invoked; in batch mode stream_feed and
\* stream_finalize are never invoked.
C33_ModesExclusive ==
    /\ [](/\ streaming_supported => buffer = <<>> /\ InvokedOps \cap BatchOps = {}
          /\ ~streaming_supported => InvokedOps \cap StreamingOps = {})
    /\ [][pc # "accept" => streaming_supported' = streaming_supported]_vars

\* A streaming session that took audio and was stopped, and used only the
\* streaming operations.
C33_Witness ==
    /\ Stopped
    /\ streaming_supported
    /\ Audio # <<>>
    /\ StreamingOps \subseteq InvokedOps

\* A batch session whose stop ran the whole batch path.
C33_WitnessBatch ==
    /\ Stopped
    /\ ~streaming_supported
    /\ BatchOps \subseteq InvokedOps

\* ---------------------------------------------------------------------------
\* The shape of a segment (webrtc_vad.py:91-123)

\* The byte length of the frames the segmenter is given (webrtc_vad.py:52).
FrameBytes == bytes_per_frame(fn_arg.frame_duration_ms, fn_arg.sample_rate)

\* C34: every segment emitted by the segmenter, during the run or at the end
\* of the input, is non-empty, its byte length is a positive multiple of the
\* frame byte length (the number of its frames times that length), and its
\* frames are a contiguous run of the input frame sequence: input frames at
\* consecutive positions, in input order.
C34_SegmentShape ==
    /\ Len(fn_ret.st.out) = Len(fn_ret.st.segments)
    /\ \A k \in 1..Len(fn_ret.st.out) :
        LET bytes == fn_ret.st.out[k]
            run == fn_ret.st.segments[k]
        IN  /\ bytes # <<>>
            /\ Len(bytes) > 0
            /\ Len(bytes) % FrameBytes = 0
            /\ Len(bytes) = Len(run) * FrameBytes
            /\ bytes = _emit_segment(run)
            /\ \A i \in 1..Len(run) :
                /\ PositionOf(run[i]) \in 1..Len(fn_arg.frames)
                /\ fn_arg.frames[PositionOf(run[i])] = run[i]
                /\ Len(run[i].bytes) = FrameBytes
            /\ \A i \in 1..(Len(run) - 1) : PositionOf(run[i + 1]) = PositionOf(run[i]) + 1

\* Two segments, the first of several frames, with input frames between them
\* that belong to neither.
C34_Witness ==
    /\ returned
    /\ Len(fn_ret.st.segments) = 2
    /\ Len(fn_ret.st.segments[1]) >= 2
    /\ PositionOf(fn_ret.st.segments[2][1]) > PositionOf(fn_ret.st.segments[1][Len(fn_ret.st.segments[1])]) + 1

\* ---------------------------------------------------------------------------
\* Frames and 16-bit samples (webrtc_vad.py:50-63, stream.py:56)

\* C35: for every sample rate the endpoint accepts and every frame duration
\* after normalization, the frame byte length computed by the slicer is
\* positive and even: a frame holds a whole number of 16-bit samples.
C35_FrameBytesEven ==
    returned => fn_ret > 0 /\ fn_ret % 2 = 0

\* ---------------------------------------------------------------------------
\* The batch flush of a stop, statement by statement, at the sample rates the
\* endpoint accepts (stream.py:129-146, webrtc_vad.py:58-63, 96-123)

\* The longest accumulation buffer, in bytes.
MaxFlushBytes == 500

\* A buffer of len bytes whose blocks of one 10 ms frame at the lowest rate
\* are filled with p[1], p[2], p[3], p[1], ...
Pcm(len, p) == [i \in 1..len |-> p[(((i - 1) \div bytes_per_frame(10, MinSampleRate)) % 3) + 1]]

FlushBuffers == {Pcm(len, p) : len \in {0, 159, 160, 321, MaxFlushBytes}, p \in [1..3 -> {0, 1}]}

FlushArgs ==
    [sample_rate : {MinSampleRate, MinSampleRate + 17, 16000, MaxSampleRate},
     vad_frame_ms : {10, 30}, vad_padding_ms : {10, 60}, vad_aggr : {2}, pcm16 : FlushBuffers]

\* stream.py:128: stop has arrived in a batch session whose buffer is pcm16.
InitFlush ==
    /\ HandlerIdle
    /\ LoopIdle
    /\ fn_arg \in FlushArgs
    /\ fn_ret = [stage |-> "stop", offset |-> 0, timestamp |-> 0, frames |-> <<>>, st |-> vad_init,
                 n |-> 0, consumed |-> <<>>, flushed |-> FALSE, events |-> <<>>]
    /\ returned = FALSE

FlushBpf == bytes_per_frame(fn_arg.vad_frame_ms, fn_arg.sample_rate)
FlushCapacity == num_padding_frames(fn_arg.vad_padding_ms, fn_arg.vad_frame_ms)

\* stream.py:130: if buffer
FlushBegin ==
    /\ fn_ret.stage = "stop"
    /\ fn_ret' = [fn_ret EXCEPT !.stage = IF fn_arg.pcm16 # <<>> THEN "slice" ELSE "finally"]
    /\ UNCHANGED <<fn_arg, returned, handler, loop>>

\* webrtc_vad.py:59-63: one pass of the slicer's while loop
FlushSliceStep ==
    /\ fn_ret.stage = "slice"
    /\ fn_ret.offset + FlushBpf <= Len(fn_arg.pcm16)
    /\ fn_ret' = [fn_ret EXCEPT
            !.frames = Append(@, Frame(SubSeq(fn_arg.pcm16, fn_ret.offset + 1, fn_ret.offset + FlushBpf), fn_ret.timestamp, FlushBpf)),
            !.offset = advance(@, FlushBpf),
            !.timestamp = @ + FlushBpf]
    /\ UNCHANGED <<fn_arg, returned, handler, loop>>

\* webrtc_vad.py:59: the loop condition fails, list() is complete (stream.py:132)
FlushSliceEnd ==
    /\ fn_ret.stage = "slice"
    /\ ~(fn_ret.offset + FlushBpf <= Len(fn_arg.pcm16))
    /\ fn_ret' = [fn_ret EXCEPT !.stage = "segment"]
    /\ UNCHANGED <<fn_arg, returned, handler, loop>>

\* webrtc_vad.py:96-119: the segmenter takes the next frame; the classifier
\* may raise (stream.py:142-143), and a yielded segment goes to transcribe.
FlushVadFrame ==
    /\ fn_ret.stage = "segment"
    /\ fn_ret.n < Len(fn_ret.frames)
    /\ \/ fn_ret' = [fn_ret EXCEPT !.stage = "finally", !.events = Append(@, Send("error", 1, "VAD/batch failed"))]
       \/ LET frame == fn_ret.frames[fn_ret.n + 1]
              st == vad_step(fn_ret.st, frame, FlushCapacity)
          IN  fn_ret' = [fn_ret EXCEPT !.st = st, !.n = @ + 1, !.consumed = Append(@, frame),
                                      !.stage = IF Len(st.out) > Len(fn_ret.st.out) THEN "transcribe" ELSE "segment"]
    /\ UNCHANGED <<fn_arg, returned, handler, loop>>

\* webrtc_vad.py:121-123: the frames are exhausted
FlushVadEnd ==
    /\ fn_ret.stage = "segment"
    /\ fn_ret.n = Len(fn_ret.frames)
    /\ LET st == vad_flush(fn_ret.st)
       IN  fn_ret' = [fn_ret EXCEPT !.st = st, !.flushed = TRUE,
                                   !.stage = IF Len(st.out) > Len(fn_ret.st.out) THEN "transcribe" ELSE "finally"]
    /\ UNCHANGED <<fn_arg, returned, handler, loop>>

\* stream.py:134-141: transcribe returns or raises on the segment just yielded
FlushTranscribe ==
    /\ fn_ret.stage = "transcribe"
    /\ \E o \in transcribe(fn_ret.st.out[Len(fn_ret.st.out)]) :
        IF o.raised
        THEN fn_ret' = [fn_ret EXCEPT !.stage = "finally", !.events = Append(@, Send("error", 1, "VAD/batch failed"))]
        ELSE fn_ret' = [fn_ret EXCEPT !.stage = IF fn_ret.flushed THEN "finally" ELSE "segment",
                                      !.events = Append(@, Send("final", 1, o.out.text))]
    /\ UNCHANGED <<fn_arg, returned, handler, loop>>

\* stream.py:144-146: buffer.clear() and the done event
FlushDone ==
    /\ fn_ret.stage = "finally"
    /\ fn_ret' = [fn_ret EXCEPT !.stage = "done", !.events = Append(@, Send("done", 1, ""))]
    /\ returned' = TRUE
    /\ UNCHANGED <<fn_arg, handler, loop>>

NextFlush ==
    \/ FlushBegin
    \/ FlushSliceStep
    \/ FlushSliceEnd
    \/ FlushVadFrame
    \/ FlushVadEnd
    \/ FlushTranscribe
    \/ FlushDone

\* The flush is straight-line code on one coroutine: whenever a statement can
\* run it does, every engine call returning or raising.
SpecFlush == InitFlush /\ [][NextFlush]_vars /\ WF_vars(NextFlush)

FlushFailed == \E p \in 1..Len(fn_ret.events) : fn_ret.events[p].op = "error"

\* The work left: at most three steps per byte not yet sliced, two per frame
\* not yet consumed, and the steps that end the stages.
FlushMeasure ==
    (IF fn_ret.stage = "stop" THEN 1 ELSE 0)
    + (IF fn_ret.stage \in {"stop", "slice"} THEN 1 + 3 * (Len(fn_arg.pcm16) - fn_ret.offset) ELSE 0)
    + 2 * (Len(fn_ret.frames) - fn_ret.n)
    + (IF fn_ret.stage = "transcribe" THEN 1 ELSE 0)
    + (IF fn_ret.stage \in {"stop", "slice", "segment", "transcribe"} THEN 1 ELSE 0)
    + (IF fn_ret.flushed THEN 0 ELSE 2)
    + (IF returned THEN 0 ELSE 1)

\* C36: for every finite buffer and every accepted sample rate the slicer
\* terminates after finitely many frames (each pass moves the offset forward
\* within the buffer, and what it has yielded when it ends is the
\* floor(len / frame bytes) frames of frame_generator), the segmenter
\* terminates after consuming every frame exactly once, in order (unless the
\* classifier raised), every step of the flush decreases the work left, which
\* is never negative, and the flush always reaches the done event, each
\* transcribe call returning or raising.
C36_FlushTerminates ==
    /\ [](/\ FlushMeasure >= 0
          /\ FlushBpf > 0
          /\ fn_ret.offset = Len(fn_ret.frames) * FlushBpf /\ fn_ret.offset <= Len(fn_arg.pcm16)
          /\ fn_ret.stage \notin {"stop", "slice"} =>
                /\ fn_ret.frames = frame_generator(fn_arg.vad_frame_ms, fn_arg.pcm16, fn_arg.sample_rate)
                /\ Len(fn_ret.frames) = Len(fn_arg.pcm16) \div FlushBpf
          /\ fn_ret.consumed = SubSeq(fn_ret.frames, 1, fn_ret.n)
          /\ fn_ret.flushed => fn_ret.consumed = fn_ret.frames
          /\ (returned /\ ~FlushFailed /\ fn_arg.pcm16 # <<>>) =>
                /\ fn_ret.flushed
                /\ fn_ret.st.out = vad_collector(fn_arg.sample_rate, fn_arg.vad_frame_ms, fn_arg.vad_padding_ms, fn_arg.vad_aggr, fn_ret.frames)
          /\ returned <=> (fn_ret.events # <<>> /\ fn_ret.events[Len(fn_ret.events)].op = "done"))
    /\ [][FlushMeasure' < FlushMeasure]_vars
    /\ <>returned

\* A flush that sliced three frames, consumed them all, transcribed a segment
\* and reached done.
C36_Witness ==
    /\ returned
    /\ Len(fn_ret.frames) = 3
    /\ fn_ret.consumed = fn_ret.frames
    /\ fn_ret.st.out # <<>>
    /\ ~FlushFailed

====
